---- MODULE Spec2Model ----
(***************************************************************************)
(* The NEAT-style neuroevolution engine (class NEATEngine).                *)
(*                                                                         *)
(* JavaScript objects are modelled as a heap: a Genome object is an        *)
(* address in `genomes`, its NeuralArchitecture object an address in       *)
(* `archs`.  The spread copy { ...genome } allocates a new Genome object   *)
(* whose `architecture` field holds the SAME architecture address.         *)
(*                                                                         *)
(* Units: weights are in quarters (4 = 1.0), compatibility coefficients    *)
(* and threshold in tenths, rates and elitism in percent, the learning     *)
(* rate in millionths.                                                     *)
(***************************************************************************)
EXTENDS Integers, Sequences, FiniteSets, TLC

VARIABLES
  configuration,    \* this.configuration
  draws,            \* the values the random draws and the oracle of this run are taken from
  genomes,          \* heap of Genome objects: address -> fields
  archs,            \* heap of NeuralArchitecture objects: address -> fields
  population,       \* this.population: sequence of genome addresses
  species,          \* this.species: sequence of Species records
  generation,       \* this.generation
  innovationNumber, \* this.innovationNumber
  bestGenome,       \* this.bestGenome: NoGenome or a Genome value
  isRunning,        \* this.isRunning
  runs,             \* evolveGeneration invocations in flight: slot -> genomes whose oracle call is pending
  timers,           \* number of pending setTimeout(() => this.evolveGeneration(), 1000) callbacks
  active,           \* slot of the invocation executing its synchronous part, 0 when the event loop is free
  pc,               \* next step of the synchronous part of the active invocation
  newPopulation,    \* local newPopulation of createNextGeneration
  eliteCount,       \* number of entries the elitism loop pushed to newPopulation
  lastStamp,        \* latest Date.now() value used for a hidden layer id
  emitted,          \* history: innovation numbers stamped on created connection genes, in order
  issuedSpeciesIds, \* history: ids given to created species, in order
  evaluationErrors, \* history: number of evaluation-error events emitted
  completedEvents   \* history: the generation carried by each generation-completed event, in order

vars == <<configuration, draws, genomes, archs, population, species, generation,
          innovationNumber, bestGenome, isRunning, runs, timers, active, pc,
          newPopulation, eliteCount, lastStamp, emitted, issuedSpeciesIds,
          evaluationErrors, completedEvents>>

----------------------------------------------------------------------------
(* Bounds of the model *)

MaxGenerations == 2

MutateGenerations == 1

DeepGenerations == 3

MaxRuns == 2

MaxPopulationSize == 2

MaxInputSize == 4

MaxOutputSize == 2

(* Values the random draws are taken from *)

WeightDeltas == {-1, 1}

UnitDraws(cfg) == {cfg.maxUnitsPerLayer}

DropoutDraws == {0}

BatchNormDraws == {FALSE}

LearningRateFactors == {90, 110}

\* weights: (Math.random() - 0.5) * 2 in quarters; activations: indices into
\* activationFunctions; fitness: values evaluateGenome returns when the model
\* is built and scored (accuracy in [0.7, 1.0) minus a penalty <= 0.3)
StandardDraws == [weights |-> {-4, 0}, activations |-> {1}, fitness |-> {1}]

\* hidden layers drawn with the output layer's activation, one weight value
LeanDraws == [weights |-> {0}, activations |-> {6}, fitness |-> {1}]

----------------------------------------------------------------------------
(* Program constants *)

activationFunctions == <<"relu", "sigmoid", "tanh", "elu", "selu", "softmax", "linear">>

tournamentSize == 3

NoGenome == [none |-> TRUE]

NegInfinity == -1   \* Math.max() of no arguments; innovation numbers are >= 0

----------------------------------------------------------------------------
(* Configurations *)

NoMutation ==
  [addNode |-> 0, addConnection |-> 0, removeNode |-> 0, removeConnection |-> 0,
   mutateWeights |-> 0, mutateActivation |-> 0, mutateLearningRate |-> 0]

BaseConfiguration ==
  [populationSize |-> 2, inputSize |-> 1, outputSize |-> 1,
   maxHiddenLayers |-> 1, maxUnitsPerLayer |-> 1,
   mutationRates |-> NoMutation,
   compatibility |-> [c1 |-> 10, c2 |-> 10, c3 |-> 4, threshold |-> 30],
   stagnation |-> [maxStagnation |-> 2, survivalThreshold |-> 20],
   elitism |-> 20]

\* every genome of the initial population founds its own species
\* (distance 2.0 is not < threshold 2.0); stagnation removes a species
\* after one generation without improvement
SplitConfiguration ==
  [BaseConfiguration EXCEPT !.compatibility.threshold = 20,
                            !.stagnation.maxStagnation = 1,
                            !.elitism = 100]

\* structural growth: add-node may fire, add-connection always does
GrowConfiguration ==
  [BaseConfiguration EXCEPT !.mutationRates.addNode = 50,
                            !.mutationRates.addConnection = 100]

\* structural removal
ShrinkConfiguration ==
  [BaseConfiguration EXCEPT !.inputSize = 2,
                            !.mutationRates.addNode = 50,
                            !.mutationRates.removeNode = 50,
                            !.mutationRates.removeConnection = 100]

\* the three parametric mutations always fire
TuneConfiguration ==
  [BaseConfiguration EXCEPT !.mutationRates.mutateWeights = 100,
                            !.mutationRates.mutateActivation = 100,
                            !.mutationRates.mutateLearningRate = 100]

\* three genomes, one species, one elite and two offspring per generation;
\* only add-node may fire
DeepConfiguration ==
  [BaseConfiguration EXCEPT !.populationSize = 3,
                            !.stagnation.maxStagnation = 15,
                            !.mutationRates.addNode = 50]

\* SplitConfiguration with three genomes
TrioConfiguration == [SplitConfiguration EXCEPT !.populationSize = 3]

\* the sizes createMinimalGenome is followed for
SizedConfigurations ==
  { [BaseConfiguration EXCEPT !.populationSize = n, !.inputSize = i, !.outputSize = o] :
      n \in 1..MaxPopulationSize, i \in 1..MaxInputSize, o \in 1..MaxOutputSize }

Configurations == {BaseConfiguration, SplitConfiguration}

MutatingConfigurations == {GrowConfiguration, ShrinkConfiguration, TuneConfiguration}

----------------------------------------------------------------------------
(* Helpers *)

Range(s) == {s[i] : i \in 1..Len(s)}

Max2(a, b) == IF a >= b THEN a ELSE b

Min2(a, b) == IF a <= b THEN a ELSE b

SetMax(S) == CHOOSE x \in S : \A y \in S : y <= x

SetMin(S) == CHOOSE x \in S : \A y \in S : x <= y

\* Array.prototype.filter
RECURSIVE SelectIdx(_, _, _)
SelectIdx(s, keep, i) ==
  IF i > Len(s) THEN <<>>
  ELSE (IF i \in keep THEN <<s[i]>> ELSE <<>>) \o SelectIdx(s, keep, i + 1)

\* smallest address not in use
FreshAddr(used) == SetMin((1..(Cardinality(used) + 1)) \ used)

\* faulty variant of Fires: the draw is compared with <=, so that rate 0 can fire
FiresAtZero(rate) == {b \in BOOLEAN : ~b => rate < 100}

\* Math.random() < rate  (rate in percent): the outcomes the draw can have
Fires(rate) == {b \in BOOLEAN : (b => rate > 0) /\ (~b => rate < 100)}

----------------------------------------------------------------------------
(* Compatibility distance *)

Abs(x) == IF x < 0 THEN -x ELSE x

\* Math.max(...connections.map(c => c.innovation))
maxInnovationOf(connections) ==
  IF Len(connections) = 0 THEN NegInfinity
  ELSE SetMax({connections[k].innovation : k \in 1..Len(connections)})

\* connections.find(c => c.innovation === i): index of the first match, 0 for undefined
FindConn(connections, i) ==
  LET idx == {k \in 1..Len(connections) : connections[k].innovation = i}
  IN IF idx = {} THEN 0 ELSE SetMin(idx)

\* the for-loop over i = 0..maxInnovation, accumulating the four counters
RECURSIVE DistanceWalk(_, _, _, _, _, _)
DistanceWalk(i, maxInnovation, minInnovation, connections1, connections2, acc) ==
  IF i > maxInnovation THEN acc
  ELSE
    LET k1 == FindConn(connections1, i)
        k2 == FindConn(connections2, i)
        next ==
          IF k1 # 0 /\ k2 # 0
            THEN [acc EXCEPT !.matching = @ + 1,
                             !.weightDiff = @ + Abs(connections1[k1].weight - connections2[k2].weight)]
          ELSE IF k1 # 0 \/ k2 # 0
            THEN IF i <= minInnovation
                   THEN [acc EXCEPT !.disjoint = @ + 1]
                   ELSE [acc EXCEPT !.excess = @ + 1]
          ELSE acc
    IN DistanceWalk(i + 1, maxInnovation, minInnovation, connections1, connections2, next)

\* The distance as a fraction num/den in tenths (den > 0), or NaN when N = 0
\* (0/0 in both structural terms).
getCompatibilityDistance(connections1, connections2, cfg) ==
  LET maxInnovation1 == maxInnovationOf(connections1)
      maxInnovation2 == maxInnovationOf(connections2)
      maxInnovation == Max2(maxInnovation1, maxInnovation2)
      acc == DistanceWalk(0, maxInnovation, Min2(maxInnovation1, maxInnovation2),
                          connections1, connections2,
                          [excess |-> 0, disjoint |-> 0, weightDiff |-> 0, matching |-> 0])
      N == Max2(Len(connections1), Len(connections2))
      M == IF acc.matching > 0 THEN acc.matching ELSE 1
      wd == IF acc.matching > 0 THEN acc.weightDiff ELSE 0
  IN IF N = 0
       THEN [nan |-> TRUE, num |-> 0, den |-> 1]
       ELSE [nan |-> FALSE,
             num |-> (cfg.compatibility.c1 * acc.excess + cfg.compatibility.c2 * acc.disjoint) * 4 * M
                     + cfg.compatibility.c3 * wd * N,
             den |-> 4 * N * M]

\* faulty variant of DistLess: a distance equal to the threshold is accepted
DistLessOrEqual(d, threshold) == ~d.nan /\ d.num <= threshold * d.den

\* distance < threshold (a comparison with NaN is false)
DistLess(d, threshold) == ~d.nan /\ d.num < threshold * d.den

GenomeDistance(g1, g2, gs, ar, cfg) ==
  getCompatibilityDistance(ar[gs[g1].architecture].connections,
                           ar[gs[g2].architecture].connections, cfg)

----------------------------------------------------------------------------
(* Speciation *)

\* faulty variant of ClearMembers: the members of the previous pass are kept
KeepMembers(sp) == sp

\* this.species.forEach(species => { species.members = []; })
ClearMembers(sp) == [k \in 1..Len(sp) |-> [sp[k] EXCEPT !.members = <<>>]]

\* the for-of loop with break: index of the first species the genome is compatible with, 0 if none
FirstCompatible(g, sp, gs, ar, cfg) ==
  LET ok == {k \in 1..Len(sp) :
               DistLess(GenomeDistance(g, sp[k].representative, gs, ar, cfg),
                        cfg.compatibility.threshold)}
  IN IF ok = {} THEN 0 ELSE SetMin(ok)

\* id given to a species created when the list is sp
NewSpeciesId(sp) == Len(sp)

\* body of this.population.forEach(genome => ...) for one genome
AssignGenome(g, st, ar, cfg) ==
  LET k == FirstCompatible(g, st.species, st.genomes, ar, cfg)
  IN IF k # 0
       THEN [st EXCEPT !.species[k].members = Append(@, g),
                       !.genomes[g].species = st.species[k].id]
       ELSE LET newSpecies == [id |-> NewSpeciesId(st.species),
                               representative |-> g,
                               members |-> <<g>>,
                               bestFitness |-> st.genomes[g].fitness,
                               stagnation |-> 0,
                               age |-> 0]
            IN [st EXCEPT !.species = Append(@, newSpecies),
                          !.genomes[g].species = newSpecies.id,
                          !.issued = Append(@, newSpecies.id)]

RECURSIVE AssignFrom(_, _, _, _, _)
AssignFrom(i, pop, st, ar, cfg) ==
  IF i > Len(pop) THEN st
  ELSE AssignFrom(i + 1, pop, AssignGenome(pop[i], st, ar, cfg), ar, cfg)

\* this.species.filter(species => species.members.length > 0)
DropEmpty(sp) == SelectIdx(sp, {k \in 1..Len(sp) : Len(sp[k].members) > 0}, 1)

\* speciatePopulation: the new genome heap, species list and id history
speciatePopulation(gs, ar, pop, sp, issued, cfg) ==
  LET st == AssignFrom(1, pop, [genomes |-> gs, species |-> ClearMembers(sp), issued |-> issued], ar, cfg)
  IN [st EXCEPT !.species = DropEmpty(@)]

----------------------------------------------------------------------------
(* Stagnation pruning *)

\* Math.max(...species.members.map(m => m.fitness)); -Infinity for no members
BestMemberFitness(s, gs) ==
  IF Len(s.members) = 0 THEN NegInfinity
  ELSE SetMax({gs[s.members[k]].fitness : k \in 1..Len(s.members)})

\* the side effect of the filter callback on one species
UpdateStagnation(s, gs) ==
  IF BestMemberFitness(s, gs) > s.bestFitness
    THEN [s EXCEPT !.bestFitness = BestMemberFitness(s, gs), !.stagnation = 0]
    ELSE [s EXCEPT !.stagnation = @ + 1]

\* faulty variant of SurvivesStagnation: a species is kept one pass longer
SurvivesOneMore(s, cfg) == s.stagnation <= cfg.stagnation.maxStagnation

\* the value the filter callback returns
SurvivesStagnation(s, cfg) == s.stagnation < cfg.stagnation.maxStagnation

removeStagnantSpecies(sp, gs, cfg) ==
  LET upd == [k \in 1..Len(sp) |-> UpdateStagnation(sp[k], gs)]
  IN SelectIdx(upd, {k \in 1..Len(upd) : SurvivesStagnation(upd[k], cfg)}, 1)

----------------------------------------------------------------------------
(* Fitness statistics *)

\* this.species.find(s => s.id === genome.species): index, 0 for undefined
FindSpecies(sp, id) ==
  LET idx == {k \in 1..Len(sp) : sp[k].id = id}
  IN IF idx = {} THEN 0 ELSE SetMin(idx)

\* adjusted fitness is the fraction n/d
calculateFitnessStatistics(gs, pop, sp) ==
  [a \in DOMAIN gs |->
     IF a \in Range(pop) /\ FindSpecies(sp, gs[a].species) # 0
       THEN [gs[a] EXCEPT !.adjustedFitness =
               [n |-> gs[a].fitness, d |-> Len(sp[FindSpecies(sp, gs[a].species)].members)]]
       ELSE gs[a]]

\* a.adjustedFitness > b.adjustedFitness
AdjustedGreater(a, b) == a.n * b.d > b.n * a.d

----------------------------------------------------------------------------
(* Construction *)

\* createMinimalGenome called with the innovation counter at `first`;
\* w gives the weight drawn for each innovation number
\* faulty variant of MinimalConnections: the counter is incremented before it is read
PreIncrementedConnections(first, w, cfg) ==
  [k \in 1..(cfg.inputSize * cfg.outputSize) |->
     [from |-> "input_" \o ToString((k - 1) \div cfg.outputSize),
      to |-> "output_" \o ToString((k - 1) % cfg.outputSize),
      weight |-> w[first + k - 1],
      enabled |-> TRUE,
      innovation |-> first + k]]

MinimalConnections(first, w, cfg) ==
  [k \in 1..(cfg.inputSize * cfg.outputSize) |->
     [from |-> "input_" \o ToString((k - 1) \div cfg.outputSize),
      to |-> "output_" \o ToString((k - 1) % cfg.outputSize),
      weight |-> w[first + k - 1],
      enabled |-> TRUE,
      innovation |-> first + k - 1]]

MinimalLayers(cfg) ==
  << [id |-> "input", type |-> "input", units |-> cfg.inputSize,
      activation |-> "linear", dropout |-> 0, batchNormalization |-> FALSE],
     [id |-> "output", type |-> "output", units |-> cfg.outputSize,
      activation |-> "softmax", dropout |-> 0, batchNormalization |-> FALSE] >>

createMinimalGenome(first, w, cfg) ==
  [layers |-> MinimalLayers(cfg),
   connections |-> MinimalConnections(first, w, cfg),
   activationFunctions |-> <<"linear", "softmax">>,
   learningRate |-> 1000,
   optimizer |-> "adam",
   lossFunction |-> "categoricalCrossentropy"]

NewGenome(a) ==
  [architecture |-> a, fitness |-> 0, species |-> 0, adjustedFitness |-> [n |-> 0, d |-> 1]]

\* state after new NEATEngine(cfg): initializePopulation, including its speciation pass
InitWith(cfg, d) ==
  \E w \in [0..(cfg.populationSize * cfg.inputSize * cfg.outputSize - 1) -> d.weights] :
    LET n == cfg.populationSize
        io == cfg.inputSize * cfg.outputSize
        ar0 == [a \in 1..n |-> createMinimalGenome((a - 1) * io, w, cfg)]
        gs0 == [a \in 1..n |-> NewGenome(a)]
        pop0 == [i \in 1..n |-> i]
        st == speciatePopulation(gs0, ar0, pop0, <<>>, <<>>, cfg)
    IN /\ configuration = cfg
       /\ draws = d
       /\ archs = ar0
       /\ genomes = st.genomes
       /\ population = pop0
       /\ species = st.species
       /\ issuedSpeciesIds = st.issued
       /\ generation = 0
       /\ innovationNumber = n * io
       /\ emitted = [k \in 1..(n * io) |-> k - 1]
       /\ bestGenome = NoGenome
       /\ isRunning = FALSE
       /\ runs = << >>
       /\ timers = 0
       /\ active = 0
       /\ pc = "idle"
       /\ newPopulation = <<>>
       /\ eliteCount = 0
       /\ lastStamp = 0
       /\ evaluationErrors = 0
       /\ completedEvents = <<>>

Init == \E cfg \in Configurations : InitWith(cfg, StandardDraws)

----------------------------------------------------------------------------
(* Mutation operators.  A mutation state m is the architecture object being *)
(* mutated together with the engine fields the operators write:             *)
(* [a, inn (innovationNumber), emitted, stamp (lastStamp)].  Each operator  *)
(* gives the set of states its random draws can produce.                    *)

HiddenCount(layers) == Cardinality({k \in 1..Len(layers) : layers[k].type = "hidden"})

\* Date.now() when a hidden layer is created: the millisecond of the previous
\* creation, or a later one
StampDraws(stamp) == IF stamp = 0 THEN {1} ELSE {stamp, stamp + 1}

\* layers.splice(insertIndex, 0, newLayer)
InsertAt(layers, insertIndex, newLayer) ==
  SubSeq(layers, 1, insertIndex) \o <<newLayer>> \o SubSeq(layers, insertIndex + 1, Len(layers))

\* faulty variant of CanAddNode: a genome at the limit gets one more hidden layer
CanAddNodeAtLimit(layers, cfg) == HiddenCount(layers) <= cfg.maxHiddenLayers

\* hiddenLayers.length < this.configuration.maxHiddenLayers
CanAddNode(layers, cfg) == HiddenCount(layers) < cfg.maxHiddenLayers

addNodeMutation(m, cfg) ==
  IF CanAddNode(m.a.layers, cfg)
    THEN { [m EXCEPT !.a.layers =
                       InsertAt(@, insertIndex,
                                [id |-> "hidden_" \o ToString(t), type |-> "hidden", units |-> u,
                                 activation |-> activationFunctions[f], dropout |-> d,
                                 batchNormalization |-> bn]),
                     !.stamp = t] :
             t \in StampDraws(m.stamp), u \in UnitDraws(cfg), f \in draws.activations,
             d \in DropoutDraws, bn \in BatchNormDraws,
             insertIndex \in 1..(Len(m.a.layers) - 1) }
    ELSE {m}

\* faulty variant of NextInnovation: the counter is read but not incremented
ReuseInnovation(inn) == [number |-> inn, counter |-> inn]

\* innovation: this.innovationNumber++  (the number stamped, and the counter afterwards)
NextInnovation(inn) == [number |-> inn, counter |-> inn + 1]

\* addConnectionMutation once fromLayer (index from), toLayer (index to) and
\* the weight w are drawn
ConnectDrawn(m, from, to, w) ==
  LET layers == m.a.layers
  IN IF layers[from].id # layers[to].id
       THEN [m EXCEPT !.a.connections =
                        Append(@, [from |-> layers[from].id, to |-> layers[to].id,
                                   weight |-> w, enabled |-> TRUE,
                                   innovation |-> NextInnovation(m.inn).number]),
                      !.inn = NextInnovation(m.inn).counter,
                      !.emitted = Append(@, NextInnovation(m.inn).number)]
       ELSE m

addConnectionMutation(m, cfg) ==
  LET layers == m.a.layers
  IN IF Len(layers) > 2
       THEN { ConnectDrawn(m, from, to, w) :
              from \in 1..(Len(layers) - 1), to \in 2..Len(layers), w \in draws.weights }
       ELSE {m}

removeNodeMutation(m, cfg) ==
  LET layers == m.a.layers
      hidden == {k \in 1..Len(layers) : layers[k].type = "hidden"}
  IN IF hidden # {}
       THEN { [m EXCEPT !.a.layers =
                          SelectIdx(layers, {k \in 1..Len(layers) : layers[k].id # layers[h].id}, 1),
                        !.a.connections =
                          SelectIdx(@, {k \in 1..Len(@) : @[k].from # layers[h].id /\ @[k].to # layers[h].id}, 1)] :
              h \in hidden }
       ELSE {m}

removeConnectionMutation(m, cfg) ==
  LET connections == m.a.connections
  IN IF Len(connections) > 1
       THEN { [m EXCEPT !.a.connections =
                          SelectIdx(connections, (1..Len(connections)) \ {indexToRemove}, 1)] :
              indexToRemove \in 1..Len(connections) }
       ELSE {m}

\* every way the forEach of mutateWeights can leave connections i..Len
RECURSIVE WeightVariants(_, _)
WeightVariants(connections, i) ==
  IF i > Len(connections) THEN {<<>>}
  ELSE LET heads == {connections[i]} \cup
                    {[connections[i] EXCEPT !.weight = @ + dw] : dw \in WeightDeltas}
       IN {<<h>> \o t : h \in heads, t \in WeightVariants(connections, i + 1)}

mutateWeights(m, cfg) ==
  { [m EXCEPT !.a.connections = c] : c \in WeightVariants(m.a.connections, 1) }

RECURSIVE ActivationVariants(_, _)
ActivationVariants(layers, i) ==
  IF i > Len(layers) THEN {<<>>}
  ELSE LET heads == {layers[i]} \cup
                    (IF layers[i].type # "input"
                       THEN {[layers[i] EXCEPT !.activation = activationFunctions[f]] : f \in draws.activations}
                       ELSE {})
       IN {<<h>> \o t : h \in heads, t \in ActivationVariants(layers, i + 1)}

mutateActivation(m, cfg) ==
  { [m EXCEPT !.a.layers = l] : l \in ActivationVariants(m.a.layers, 1) }

\* Math.max(0.0001, Math.min(0.1, lr)) in millionths
ClampLearningRate(lr) == Max2(100, Min2(100000, lr))

mutateLearningRate(m, cfg) ==
  { [m EXCEPT !.a.learningRate = ClampLearningRate((@ * f) \div 100)] : f \in LearningRateFactors }

\* if (Math.random() < rate) { op(mutated) }
Gated(rate, applied, m) ==
  (IF FALSE \in Fires(rate) THEN {m} ELSE {}) \cup (IF TRUE \in Fires(rate) THEN applied ELSE {})

\* the seven gated operators of mutate, in the order of the code
mutate(m0, cfg) ==
  LET r == cfg.mutationRates
      S1 == Gated(r.addNode, addNodeMutation(m0, cfg), m0)
      S2 == UNION {Gated(r.addConnection, addConnectionMutation(m, cfg), m) : m \in S1}
      S3 == UNION {Gated(r.removeNode, removeNodeMutation(m, cfg), m) : m \in S2}
      S4 == UNION {Gated(r.removeConnection, removeConnectionMutation(m, cfg), m) : m \in S3}
      S5 == UNION {Gated(r.mutateWeights, mutateWeights(m, cfg), m) : m \in S4}
      S6 == UNION {Gated(r.mutateActivation, mutateActivation(m, cfg), m) : m \in S5}
  IN UNION {Gated(r.mutateLearningRate, mutateLearningRate(m, cfg), m) : m \in S6}

----------------------------------------------------------------------------
(* Selection and crossover *)

\* the tournament loop for draws d[1..tournamentSize] (indices into the population)
RECURSIVE TournamentFrom(_, _, _, _, _)
TournamentFrom(i, best, d, pop, gs) ==
  IF i > tournamentSize THEN best
  ELSE LET candidate == pop[d[i]]
       IN TournamentFrom(i + 1,
            IF AdjustedGreater(gs[candidate].adjustedFitness, gs[best].adjustedFitness)
              THEN candidate ELSE best,
            d, pop, gs)

\* the genomes selectParent can return
selectParent(pop, gs) ==
  { TournamentFrom(2, pop[d[1]], d, pop, gs) : d \in [1..tournamentSize -> 1..Len(pop)] }

\* faulty variant of MixLayers: the spread copies layer2 instead of layer1
MixIntoSecond(layer1, layer2) ==
  { [layer2 EXCEPT !.units = u, !.activation = f, !.dropout = d, !.batchNormalization = bn] :
      u \in {layer1.units, layer2.units}, f \in {layer1.activation, layer2.activation},
      d \in {layer1.dropout, layer2.dropout},
      bn \in {layer1.batchNormalization, layer2.batchNormalization} }

\* the layer pushed at an index where both parents have a layer
MixLayers(layer1, layer2) ==
  { [layer1 EXCEPT !.units = u, !.activation = f, !.dropout = d, !.batchNormalization = bn] :
      u \in {layer1.units, layer2.units}, f \in {layer1.activation, layer2.activation},
      d \in {layer1.dropout, layer2.dropout},
      bn \in {layer1.batchNormalization, layer2.batchNormalization} }

\* the for-loop over i < maxLayers (1-based here): the layer sequences it can build from index i on
RECURSIVE CrossLayersFrom(_, _, _)
CrossLayersFrom(i, layers1, layers2) ==
  IF i > Max2(Len(layers1), Len(layers2)) THEN {<<>>}
  ELSE LET heads == IF i <= Len(layers1) /\ i <= Len(layers2) THEN MixLayers(layers1[i], layers2[i])
                    ELSE IF i <= Len(layers1) THEN {layers1[i]}
                    ELSE {layers2[i]}
       IN {<<h>> \o t : h \in heads, t \in CrossLayersFrom(i + 1, layers1, layers2)}

\* the architectures the gene-mixing branch of crossover can build
crossoverArchitectures(a1, a2) ==
  { [layers |-> l,
     connections |-> <<>>,
     activationFunctions |-> <<>>,
     learningRate |-> lr,
     optimizer |-> op,
     lossFunction |-> lf] :
      l \in CrossLayersFrom(1, a1.layers, a2.layers),
      lr \in {a1.learningRate, a2.learningRate},
      op \in {a1.optimizer, a2.optimizer},
      lf \in {a1.lossFunction, a2.lossFunction} }

\* Math.random() < 0.5 in crossover: TRUE returns { ...parent1 }
ShortcutDraws == BOOLEAN

----------------------------------------------------------------------------
(* Elitism *)

\* position of x in a list sorted by descending fitness, after its equals (stable sort)
RECURSIVE InsertByFitness(_, _, _)
InsertByFitness(x, sorted, gs) ==
  IF Len(sorted) = 0 THEN <<x>>
  ELSE IF gs[Head(sorted)].fitness >= gs[x].fitness
         THEN <<Head(sorted)>> \o InsertByFitness(x, Tail(sorted), gs)
         ELSE <<x>> \o sorted

\* [...species.members].sort((a, b) => b.fitness - a.fitness)
RECURSIVE SortedMembers(_, _)
SortedMembers(members, gs) ==
  IF Len(members) = 0 THEN <<>>
  ELSE InsertByFitness(members[Len(members)],
                       SortedMembers(SubSeq(members, 1, Len(members) - 1), gs), gs)

\* Math.ceil(species.members.length * this.configuration.elitism)
EliteCountOf(s, cfg) == (Len(s.members) * cfg.elitism + 99) \div 100

\* the members of one species the elitism loop copies
ElitesOf(s, gs, cfg) ==
  SubSeq(SortedMembers(s.members, gs), 1, Min2(EliteCountOf(s, cfg), Len(s.members)))

\* the genomes copied by this.species.forEach(...), in order
RECURSIVE EliteSources(_, _, _, _)
EliteSources(k, sp, gs, cfg) ==
  IF k > Len(sp) THEN <<>>
  ELSE ElitesOf(sp[k], gs, cfg) \o EliteSources(k + 1, sp, gs, cfg)

\* newPopulation.push({ ...source }) for each source: the heap with the copies, and their addresses
RECURSIVE CopyAll(_, _, _)
CopyAll(sources, gs, copies) ==
  IF Len(sources) = 0 THEN [genomes |-> gs, copies |-> copies]
  ELSE LET g == FreshAddr(DOMAIN gs)
       IN CopyAll(Tail(sources), gs @@ (g :> gs[Head(sources)]), Append(copies, g))

----------------------------------------------------------------------------
(* Object lifetime: objects no reference reaches are dropped from the heap *)

LiveGenomes(pop, sp, rns, np) ==
  Range(pop) \cup Range(np)
  \cup UNION {Range(sp[k].members) \cup {sp[k].representative} : k \in 1..Len(sp)}
  \cup UNION {rns[r] : r \in DOMAIN rns}

Collect(gs, ar, pop, sp, rns, np, best) ==
  LET live == LiveGenomes(pop, sp, rns, np)
      liveArchs == {gs[g].architecture : g \in live}
                   \cup (IF best = NoGenome THEN {} ELSE {best.architecture})
  IN [genomes |-> [g \in live |-> gs[g]], archs |-> [a \in liveArchs |-> ar[a]]]

----------------------------------------------------------------------------
(* Best genome *)

\* this.population.reduce((best, genome) => genome.fitness > best.fitness ? genome : best)
RECURSIVE ReduceBest(_, _, _, _)
ReduceBest(i, best, pop, gs) ==
  IF i > Len(pop) THEN best
  ELSE ReduceBest(i + 1, IF gs[pop[i]].fitness > gs[best].fitness THEN pop[i] ELSE best, pop, gs)

updateBestGenome(best, pop, gs) ==
  LET currentBest == gs[ReduceBest(2, pop[1], pop, gs)]
  IN IF best = NoGenome \/ currentBest.fitness > best.fitness THEN currentBest ELSE best

----------------------------------------------------------------------------
(* The generation loop *)

NumRuns == Cardinality(DOMAIN runs)

\* evolveGeneration up to its first await: every oracle call is issued
BeginGeneration ==
  runs' = runs @@ (FreshAddr(DOMAIN runs) :> Range(population))

\* the model explores generations below cap and at most MaxRuns invocations at a time
MayBegin(cap) == generation + NumRuns < cap /\ NumRuns < MaxRuns

engineFields == <<configuration, draws, genomes, archs, population, species, generation,
                  innovationNumber, bestGenome, newPopulation, eliteCount, lastStamp,
                  emitted, issuedSpeciesIds, evaluationErrors, completedEvents>>

StartEvolution(cap) ==
  /\ active = 0
  /\ IF isRunning
       THEN UNCHANGED <<isRunning, runs>>
       ELSE /\ MayBegin(cap)
            /\ isRunning' = TRUE
            /\ BeginGeneration
  /\ UNCHANGED <<engineFields, timers, active, pc>>

StopEvolution ==
  /\ active = 0
  /\ isRunning' = FALSE
  /\ UNCHANGED <<engineFields, runs, timers, active, pc>>

\* faulty variant of EntryGuard: the test is inverted
InvertedEntryGuard(running) == ~running

\* faulty variant of EntryGuard: evolveGeneration runs whatever the flag says
NoEntryGuard(running) == TRUE

\* if (!this.isRunning) return;  at the top of evolveGeneration
EntryGuard(running) == running

\* the setTimeout callback: () => this.evolveGeneration()
TimerFires(cap) ==
  /\ active = 0
  /\ timers > 0
  /\ timers' = timers - 1
  /\ IF EntryGuard(isRunning)
       THEN MayBegin(cap) /\ BeginGeneration
       ELSE UNCHANGED runs
  /\ UNCHANGED <<engineFields, isRunning, active, pc>>

\* faulty variant of Settle: the value is written to every genome
SettleAll(gs, g, fitness) == [h \in DOMAIN gs |-> [gs[h] EXCEPT !.fitness = fitness]]

\* genome.fitness = fitness
Settle(gs, g, fitness) == [gs EXCEPT ![g].fitness = fitness]

\* faulty variant of AllSettled: the first promise to settle resumes evolveGeneration
FirstSettled(pending) == TRUE

\* await Promise.all(evaluationPromises): no promise of the invocation is pending
AllSettled(pending) == pending = {}

\* the continuation of one genome's `await this.evaluateGenome(genome)` with
\* the value it resolved to; the last one resumes evolveGeneration
Resolve(r, g, result) ==
  /\ active = 0
  /\ r \in DOMAIN runs
  /\ g \in runs[r]
  /\ LET rns == [runs EXCEPT ![r] = @ \ {g}]
         gs == Settle(genomes, g, IF result.rejected THEN 0 ELSE result.value)
         h == Collect(gs, archs, population, species, rns, newPopulation, bestGenome)
     IN /\ runs' = rns
        /\ genomes' = h.genomes
        /\ archs' = h.archs
        /\ IF AllSettled(rns[r])
             THEN active' = r /\ pc' = "stats"
             ELSE UNCHANGED <<active, pc>>
  \* catch (error) { genome.fitness = 0; this.emit('evaluation-error', ...) }
  /\ evaluationErrors' = IF result.rejected THEN evaluationErrors + 1 ELSE evaluationErrors
  /\ UNCHANGED <<configuration, draws, population, species, generation, innovationNumber,
                 bestGenome, isRunning, timers, newPopulation, eliteCount, lastStamp,
                 emitted, issuedSpeciesIds, completedEvents>>

\* evaluateGenome: the promise it returns.  outcome.throws says whether
\* building or scoring the model throws; the try/catch turns a throw into the
\* value 0, so the promise is never rejected
evaluateGenome(outcome) ==
  [rejected |-> FALSE, value |-> IF outcome.throws THEN 0 ELSE outcome.score]

\* building and scoring succeed: Math.max(0, accuracyScore - complexityPenalty)
OracleReturns ==
  \E r \in DOMAIN runs : \E g \in runs[r] : \E f \in draws.fitness :
    Resolve(r, g, evaluateGenome([throws |-> FALSE, score |-> f]))

\* building or scoring the model throws
OracleFails ==
  \E r \in DOMAIN runs : \E g \in runs[r] :
    Resolve(r, g, evaluateGenome([throws |-> TRUE, score |-> 0]))

Statistics ==
  /\ active # 0 /\ pc = "stats"
  /\ genomes' = calculateFitnessStatistics(genomes, population, species)
  /\ pc' = "speciate"
  /\ UNCHANGED <<configuration, draws, evaluationErrors, completedEvents, archs, population, species, generation, innovationNumber,
                 bestGenome, isRunning, runs, timers, active, newPopulation, eliteCount,
                 lastStamp, emitted, issuedSpeciesIds>>

Speciate ==
  /\ active # 0 /\ pc = "speciate"
  /\ LET st == speciatePopulation(genomes, archs, population, species, issuedSpeciesIds, configuration)
         h == Collect(st.genomes, archs, population, st.species, runs, newPopulation, bestGenome)
     IN /\ species' = st.species
        /\ issuedSpeciesIds' = st.issued
        /\ genomes' = h.genomes
        /\ archs' = h.archs
  /\ pc' = "prune"
  /\ UNCHANGED <<configuration, draws, evaluationErrors, completedEvents, population, generation, innovationNumber, bestGenome,
                 isRunning, runs, timers, active, newPopulation, eliteCount, lastStamp, emitted>>

Prune ==
  /\ active # 0 /\ pc = "prune"
  /\ LET sp == removeStagnantSpecies(species, genomes, configuration)
         h == Collect(genomes, archs, population, sp, runs, newPopulation, bestGenome)
     IN /\ species' = sp
        /\ genomes' = h.genomes
        /\ archs' = h.archs
  /\ pc' = "elitism"
  /\ UNCHANGED <<configuration, draws, evaluationErrors, completedEvents, population, generation, innovationNumber, bestGenome,
                 isRunning, runs, timers, active, newPopulation, eliteCount, lastStamp,
                 emitted, issuedSpeciesIds>>

\* createNextGeneration, the elitism loop
Elitism ==
  /\ active # 0 /\ pc = "elitism"
  /\ LET c == CopyAll(EliteSources(1, species, genomes, configuration), genomes, <<>>)
     IN /\ genomes' = c.genomes
        /\ newPopulation' = c.copies
        /\ eliteCount' = Len(c.copies)
  /\ pc' = "reproduce"
  /\ UNCHANGED <<configuration, draws, evaluationErrors, completedEvents, archs, population, species, generation, innovationNumber,
                 bestGenome, isRunning, runs, timers, active, lastStamp, emitted,
                 issuedSpeciesIds>>

\* faulty variant of NeedsOffspring: the loop stops one offspring early
StopsOneShort(np, cfg) == Len(np) + 1 < cfg.populationSize

\* while (newPopulation.length < this.configuration.populationSize)
NeedsOffspring(np, cfg) == Len(np) < cfg.populationSize

\* one iteration of the while loop: selectParent twice, crossover, mutate, push
Offspring ==
  /\ active # 0 /\ pc = "reproduce"
  /\ NeedsOffspring(newPopulation, configuration)
  /\ \E parent1 \in selectParent(population, genomes), parent2 \in selectParent(population, genomes) :
     \E shortcut \in ShortcutDraws :
       LET g == FreshAddr(DOMAIN genomes)
           a1 == genomes[parent1].architecture
           a2 == genomes[parent2].architecture
       IN IF shortcut
            THEN \* { ...parent1 }, then mutate's { ...genome }: the architecture object is parent1's
                 \E m \in mutate([a |-> archs[a1], inn |-> innovationNumber,
                                  emitted |-> emitted, stamp |-> lastStamp], configuration) :
                   /\ archs' = [archs EXCEPT ![a1] = m.a]
                   /\ genomes' = genomes @@ (g :> genomes[parent1])
                   /\ innovationNumber' = m.inn
                   /\ emitted' = m.emitted
                   /\ lastStamp' = m.stamp
            ELSE \E x \in crossoverArchitectures(archs[a1], archs[a2]) :
                 \E m \in mutate([a |-> x, inn |-> innovationNumber,
                                  emitted |-> emitted, stamp |-> lastStamp], configuration) :
                   LET a == FreshAddr(DOMAIN archs)
                   IN /\ archs' = archs @@ (a :> m.a)
                      /\ genomes' = genomes @@ (g :> NewGenome(a))
                      /\ innovationNumber' = m.inn
                      /\ emitted' = m.emitted
                      /\ lastStamp' = m.stamp
  /\ newPopulation' = Append(newPopulation, FreshAddr(DOMAIN genomes))
  /\ UNCHANGED <<configuration, draws, evaluationErrors, completedEvents, population, species, generation, bestGenome, isRunning,
                 runs, timers, active, pc, eliteCount, issuedSpeciesIds>>

\* return newPopulation.slice(0, populationSize); then the rest of evolveGeneration
Install ==
  /\ active # 0 /\ pc = "reproduce"
  /\ ~NeedsOffspring(newPopulation, configuration)
  /\ LET pop == SubSeq(newPopulation, 1, Min2(configuration.populationSize, Len(newPopulation)))
         best == updateBestGenome(bestGenome, pop, genomes)
         rns == [r \in DOMAIN runs \ {active} |-> runs[r]]
         h == Collect(genomes, archs, pop, species, rns, <<>>, best)
     IN /\ population' = pop
        /\ bestGenome' = best
        /\ runs' = rns
        /\ genomes' = h.genomes
        /\ archs' = h.archs
  /\ generation' = generation + 1
  \* this.emit('generation-completed', { generation: this.generation, ... })
  /\ completedEvents' = Append(completedEvents, generation + 1)
  /\ timers' = IF isRunning THEN timers + 1 ELSE timers
  /\ active' = 0
  /\ pc' = "idle"
  /\ newPopulation' = <<>>
  /\ eliteCount' = 0
  /\ UNCHANGED <<configuration, draws, evaluationErrors, species, innovationNumber, isRunning, lastStamp, emitted,
                 issuedSpeciesIds>>

\* the caller starts evolution once and leaves it running; generations below cap
Running(cap) ==
  \/ StartEvolution(cap)
  \/ TimerFires(cap)
  \/ OracleReturns
  \/ OracleFails
  \/ Statistics
  \/ Speciate
  \/ Prune
  \/ Elitism
  \/ Offspring
  \/ Install

Next == Running(MaxGenerations)

Spec == Init /\ [][Next]_vars

\* the same engine constructed with a configuration whose mutation rates are not all 0
InitMutate == \E cfg \in MutatingConfigurations : InitWith(cfg, StandardDraws)

\* one generation is followed: the callback scheduled at its end stays pending
NextMutate ==
  \/ StartEvolution(MutateGenerations)
  \/ OracleReturns
  \/ OracleFails
  \/ Statistics
  \/ Speciate
  \/ Prune
  \/ Elitism
  \/ Offspring
  \/ Install

SpecMutate == InitMutate /\ [][NextMutate]_vars

\* engines constructed with every input, output and population size up to
\* the bounds, followed for one generation
InitSized == \E cfg \in SizedConfigurations : InitWith(cfg, LeanDraws)

SpecSized == InitSized /\ [][NextMutate]_vars

\* GrowConfiguration followed for MaxGenerations generations
InitGrow == InitWith(GrowConfiguration, StandardDraws)

SpecGrow == InitGrow /\ [][Next]_vars

\* three genomes at pairwise distance exactly threshold, followed for
\* MaxGenerations generations
InitTrio == InitWith(TrioConfiguration, StandardDraws)

SpecTrio == InitTrio /\ [][Next]_vars

\* the caller may also stop evolution and start it again at any time
InitLoop == InitWith(BaseConfiguration, StandardDraws)

NextLoop ==
  \/ Running(MaxGenerations)
  \/ StopEvolution

SpecLoop == InitLoop /\ [][NextLoop]_vars

\* the caller calls startEvolution once, may call stopEvolution at any time
\* and never calls startEvolution again
FirstStart == generation = 0 /\ NumRuns = 0 /\ StartEvolution(MaxGenerations)

\* the steps of evolveGeneration after its await
Continuation ==
  \/ Statistics
  \/ Speciate
  \/ Prune
  \/ Elitism
  \/ Offspring
  \/ Install

NextStop ==
  \/ FirstStart
  \/ StopEvolution
  \/ TimerFires(MaxGenerations)
  \/ OracleReturns
  \/ OracleFails
  \/ Continuation

\* every oracle promise settles (evaluateGenome catches every error and
\* simulateAccuracy returns), and the synchronous code after the await runs to
\* completion: it is never suspended with the event loop taken (active # 0)
SpecStop ==
  /\ InitLoop
  /\ [][NextStop]_vars
  /\ WF_vars(OracleReturns \/ OracleFails)
  /\ []<>(active = 0)

\* the caller starts evolution and never stops it; every oracle promise
\* settles, every scheduled delay fires, and the synchronous code after the
\* await runs to completion
SpecRun ==
  /\ InitLoop
  /\ [][Next]_vars
  /\ WF_vars(TimerFires(MaxGenerations))
  /\ WF_vars(OracleReturns \/ OracleFails)
  /\ []<>(active = 0)

\* DeepConfiguration with an oracle that fails for every genome, followed for
\* DeepGenerations generations
InitDeep == InitWith(DeepConfiguration, LeanDraws)

NextDeep ==
  \/ StartEvolution(DeepGenerations)
  \/ TimerFires(DeepGenerations)
  \/ OracleFails
  \/ Statistics
  \/ Speciate
  \/ Prune
  \/ Elitism
  \/ Offspring
  \/ Install

SpecDeep == InitDeep /\ [][NextDeep]_vars

----------------------------------------------------------------------------
(* Properties *)

LayersOfType(g, type) ==
  Cardinality({k \in 1..Len(archs[genomes[g].architecture].layers) :
                 archs[genomes[g].architecture].layers[k].type = type})

\* number of times genome g occurs in the members of species k
Occurrences(g, k) == Cardinality({i \in 1..Len(species[k].members) : species[k].members[i] = g})

\* g's species field names a species of the list that holds g
InOwnSpecies(g) ==
  \E k \in 1..Len(species) :
    species[k].id = genomes[g].species /\ g \in Range(species[k].members)

\* C1: after every createNextGeneration call, and so in every state, the
\* population holds exactly populationSize genomes.
PopulationConservation == Len(population) = configuration.populationSize

\* a generation has completed in which stagnation removed a species
PopulationConservationWitness ==
  /\ generation >= 1 /\ active = 0
  /\ configuration.stagnation.maxStagnation = 1
  /\ Len(species) < configuration.populationSize
  /\ Len(population) = configuration.populationSize

\* C2: immediately after a speciation pass every population genome carries
\* the id of a species that holds it, is held exactly once by exactly one
\* species, and no species holds a genome outside the population.
SpeciesPartition ==
  (pc = "prune" \/ (generation = 0 /\ pc = "idle")) =>
    /\ \A g \in Range(population) : InOwnSpecies(g)
    /\ \A g \in Range(population) :
         /\ Cardinality({k \in 1..Len(species) : g \in Range(species[k].members)}) = 1
         /\ \A k \in 1..Len(species) : Occurrences(g, k) <= 1
    /\ \A k \in 1..Len(species) : Range(species[k].members) \subseteq Range(population)

\* a speciation pass of a later generation has just created a species next to an older one
SpeciesPartitionWitness ==
  /\ pc = "prune" /\ generation >= 1
  /\ Len(species) >= 2
  /\ Len(issuedSpeciesIds) > configuration.populationSize

\* C3: in every observable state (after initialization, after stagnation
\* pruning, after the new population is installed) each population genome's
\* species id names a species of the list whose members include the genome.
NoDanglingSpeciesId ==
  pc \in {"idle", "elitism"} => \A g \in Range(population) : InOwnSpecies(g)

\* C4: the innovation numbers handed out so far are exactly 0, 1, 2, ... in
\* this order, one per created connection gene, and the counter is their count.
InnovationMonotonicity ==
  /\ Len(emitted) = innovationNumber
  /\ \A i \in 1..Len(emitted) : emitted[i] = i - 1

\* an add-connection mutation has created a gene after the initial population
InnovationMonotonicityWitness ==
  /\ innovationNumber >
       configuration.populationSize * configuration.inputSize * configuration.outputSize
  /\ \E a \in DOMAIN archs : \E k \in 1..Len(archs[a].connections) :
       archs[a].connections[k].innovation = innovationNumber - 1

\* C5: no two species of the list share an id, and no id is given to two created species.
SpeciesIdsNeverReused ==
  /\ \A k, l \in 1..Len(species) : k # l => species[k].id # species[l].id
  /\ \A i, j \in 1..Len(issuedSpeciesIds) : i # j => issuedSpeciesIds[i] # issuedSpeciesIds[j]

\* C6: every genome of the population has exactly one input layer and exactly one output layer.
OneInputOneOutput ==
  \A g \in Range(population) : LayersOfType(g, "input") = 1 /\ LayersOfType(g, "output") = 1

\* C7: every genome of the population has at most maxHiddenLayers hidden layers.
HiddenLayersBounded ==
  \A g \in Range(population) : LayersOfType(g, "hidden") <= configuration.maxHiddenLayers

\* the genomes reproduction must leave alone: the current population and
\* every species' members and representative
Originals ==
  Range(population)
  \cup UNION {Range(species[k].members) \cup {species[k].representative} : k \in 1..Len(species)}

ArchitectureKept(g) == archs'[genomes[g].architecture] = archs[genomes[g].architecture]

\* C8: producing an offspring (crossover, then the mutation pass) changes the
\* architecture of no genome of the current population and of no species'
\* member or representative.
MutationWorksOnCopy ==
  [][pc = "reproduce" /\ Len(newPopulation') = Len(newPopulation) + 1
       => \A g \in Originals : ArchitectureKept(g)]_vars

\* C9: from the elitism copy until createNextGeneration returns, no step
\* changes the architecture of a genome that elitism placed in the next population.
ElitismFidelity ==
  [][pc = "reproduce" =>
       \A i \in 1..eliteCount : ArchitectureKept(newPopulation[i])]_vars

\* C10: at most one generation is in progress at any time.
GenerationsNeverOverlap == NumRuns <= 1

\* stopEvolution has been called after the one startEvolution call
Stopped == ~isRunning /\ (generation > 0 \/ NumRuns > 0)

\* C11: once stop is requested (and start is not called again) the generation
\* in flight still completes and advances the generation counter, no
\* generation begins afterwards, and a pending delay that fires begins none.
CooperativeStop ==
  /\ \A k \in 0..(MaxGenerations - 1) :
       (Stopped /\ NumRuns = 1 /\ generation = k) ~> (NumRuns = 0 /\ generation = k + 1)
  /\ [][Stopped => Stopped' /\ NumRuns' <= NumRuns]_vars

\* the generation that was in flight when stop was requested has completed
\* without scheduling a delay
CooperativeStopWitness ==
  /\ Stopped /\ NumRuns = 0 /\ generation = 1 /\ timers = 0
  /\ population # <<1, 2>>

\* the oracle call of genome g settles in this step
Settles(g) == \E r \in DOMAIN runs : g \in runs[r] /\ g \notin runs'[r]

\* every population genome other than g keeps its fitness in this step
OthersKeepFitness(g) ==
  \A h \in Range(population) \ {g} : genomes'[h].fitness = genomes[h].fitness

\* in the generation in flight the oracle call of some genome has failed
OracleFailed ==
  \E r \in DOMAIN runs : \E g \in Range(population) \ runs[r] : genomes[g].fitness = 0

\* C12: a failed oracle call writes fitness 0 to its genome and changes no
\* other genome's fitness, a successful one writes the value it returned to
\* its genome only, and a generation in which a call failed still advances
\* the generation counter.
OracleFailureNonFatal ==
  /\ [][OracleFails =>
          \E g \in Range(population) :
            Settles(g) /\ genomes'[g].fitness = 0 /\ OthersKeepFitness(g)]_vars
  /\ [][OracleReturns =>
          \E g \in Range(population) :
            Settles(g) /\ genomes'[g].fitness \in draws.fitness /\ OthersKeepFitness(g)]_vars
  /\ \A k \in 0..(MaxGenerations - 1) :
       (OracleFailed /\ generation = k) ~> (generation = k + 1)

\* one oracle call failed, another succeeded, and the generation has gone on
\* to reproduction
OracleFailureNonFatalWitness ==
  /\ pc = "reproduce" /\ OracleFailed
  /\ \E g \in Range(population) : genomes[g].fitness > 0

\* C13: every oracle failure emits one evaluation-error event.
EveryFailureReported ==
  [][OracleFails => evaluationErrors' = evaluationErrors + 1]_vars

\* getCompatibilityDistance(g1, g2) in the current state
Distance(g1, g2) == GenomeDistance(g1, g2, genomes, archs, configuration)

\* d1 === d2 on numbers: false when either is NaN
NumberEquals(d1, d2) == ~d1.nan /\ ~d2.nan /\ d1.num * d2.den = d2.num * d1.den

\* C14: the distance between two genomes is the same in both orders.
DistanceSymmetry ==
  \A g1, g2 \in DOMAIN genomes :
    g1 # g2 => NumberEquals(Distance(g1, g2), Distance(g2, g1))

\* C15: the distance of every genome to itself is 0.
DistanceIdentity ==
  \A g \in DOMAIN genomes : ~Distance(g, g).nan /\ Distance(g, g).num = 0

\* C16: the distance of every pair of genomes is a number, and it is not negative.
DistanceDefined ==
  \A g1, g2 \in DOMAIN genomes : ~Distance(g1, g2).nan /\ Distance(g1, g2).num >= 0

\* a speciation pass has just completed
AfterSpeciation == pc = "prune" \/ (generation = 0 /\ pc = "idle" /\ NumRuns = 0)

\* the distance d is exactly the configured threshold
AtThreshold(d) == ~d.nan /\ d.num = configuration.compatibility.threshold * d.den

\* the distance d is strictly below the configured threshold
BelowThreshold(d) == ~d.nan /\ d.num < configuration.compatibility.threshold * d.den

SameSpecies(g1, g2) ==
  \E k \in 1..Len(species) : g1 \in Range(species[k].members) /\ g2 \in Range(species[k].members)

\* C17 as stated: after a speciation pass two genomes of the population at
\* distance exactly threshold from each other are in different species.
ThresholdBoundaryPairs ==
  AfterSpeciation =>
    \A g1, g2 \in Range(population) :
      g1 # g2 /\ AtThreshold(Distance(g1, g2)) => ~SameSpecies(g1, g2)

\* C17 amended: after a speciation pass every member of a species other than
\* its representative is at distance strictly below threshold from the
\* representative; a genome at distance exactly threshold from a
\* representative is not in that representative's species.
ThresholdBoundary ==
  AfterSpeciation =>
    \A k \in 1..Len(species) : \A g \in Range(species[k].members) :
      g # species[k].representative =>
        /\ BelowThreshold(Distance(g, species[k].representative))
        /\ ~AtThreshold(Distance(g, species[k].representative))

\* a pass after the first has left a genome at distance exactly threshold
\* from a representative outside that representative's species
ThresholdBoundaryWitness ==
  /\ pc = "prune"
  /\ \E k \in 1..Len(species) : \E g \in Range(population) :
       /\ g # species[k].representative
       /\ AtThreshold(Distance(g, species[k].representative))
       /\ g \notin Range(species[k].members)

\* species s of the current list is still in the list after the step
StaysListed(s) ==
  \E j \in 1..Len(species') :
    species'[j].id = s.id /\ species'[j].representative = s.representative

\* the members of s do not improve on its recorded best fitness
NoImprovement(s) == BestMemberFitness(s, genomes) <= s.bestFitness

\* C18: a stagnation pass removes every species that has now gone
\* maxStagnation consecutive passes without improving on its recorded best
\* fitness, counts a further pass for each species that did not improve and
\* stays, and leaves only species whose counter is below maxStagnation.
StagnantSpeciesRemoved ==
  /\ [][pc = "prune" /\ pc' = "elitism" =>
          \A k \in 1..Len(species) :
            /\ NoImprovement(species[k])
                 /\ species[k].stagnation + 1 >= configuration.stagnation.maxStagnation
                 => ~StaysListed(species[k])
            /\ NoImprovement(species[k]) /\ StaysListed(species[k])
                 => \E j \in 1..Len(species') :
                      /\ species'[j].representative = species[k].representative
                      /\ species'[j].stagnation = species[k].stagnation + 1]_vars
  /\ [](pc \in {"elitism", "reproduce"} =>
          \A k \in 1..Len(species) :
            species[k].stagnation < configuration.stagnation.maxStagnation)

\* with maxStagnation 2, the second pass in a row without improvement has
\* just emptied the species list
StagnantSpeciesRemovedWitness ==
  /\ configuration.stagnation.maxStagnation = 2
  /\ pc = "elitism" /\ generation = 1
  /\ species = <<>>

\* the members of the species left in the list
SurvivingMembers == UNION {Range(species[k].members) : k \in 1..Len(species)}

\* C19: during reproduction every elite source and every genome that
\* selectParent can return is a member of a species still in the list.
OnlySurvivorsReproduce ==
  /\ pc = "elitism" =>
       Range(EliteSources(1, species, genomes, configuration)) \subseteq SurvivingMembers
  /\ pc = "reproduce" /\ NeedsOffspring(newPopulation, configuration) =>
       selectParent(population, genomes) \subseteq SurvivingMembers

\* the step that completes a generation
CompletesGeneration == pc = "reproduce" /\ pc' = "idle"

\* C20: when a generation completes the recorded best genome is at least as
\* fit as every genome evaluated in it, and the record never loses fitness and
\* changes only for a strictly fitter genome.
BestEverRecorded ==
  /\ [][CompletesGeneration =>
          /\ bestGenome' # NoGenome
          /\ \A g \in Range(population) : bestGenome'.fitness >= genomes[g].fitness]_vars
  /\ [][bestGenome # NoGenome /\ bestGenome' # bestGenome =>
          bestGenome'.fitness > bestGenome.fitness]_vars

\* the species of the list whose id genome g carries
SpeciesNamedBy(g) == {k \in 1..Len(species) : species[k].id = genomes[g].species}

\* g.adjustedFitness === g.fitness / count
AdjustedIs(g, count) ==
  genomes[g].adjustedFitness.n * count = genomes[g].fitness * genomes[g].adjustedFitness.d

\* C21: when the statistics step of a generation has run, in the first
\* generation and in every later one, every population genome carries the id
\* of a listed species and its adjusted fitness is its own fitness divided by
\* the number of members of that species.
AdjustedFitnessShared ==
  pc = "speciate" =>
    \A g \in Range(population) :
      \E k \in SpeciesNamedBy(g) : AdjustedIs(g, Len(species[k].members))

\* the representative of species s is the representative of a species after the step
StillRepresentative(s) ==
  \E j \in 1..Len(species') : species'[j].representative = s.representative

\* C24: no step changes the architecture of the representative of a species
\* that stays in the list, and a speciation pass leaves the id,
\* representative, bestFitness, stagnation and age of every species it keeps
\* (a species in the list after the pass is one of the list before it with
\* other members, or a species founded in the pass).
RepresentativeImmutable ==
  /\ [][\A k \in 1..Len(species) :
          StillRepresentative(species[k]) =>
            archs'[genomes[species[k].representative].architecture]
              = archs[genomes[species[k].representative].architecture]]_vars
  /\ [][pc = "speciate" /\ pc' = "prune" =>
          \A j \in 1..Len(species') :
            \/ \E k \in 1..Len(species) :
                 [species'[j] EXCEPT !.members = <<>>] = [species[k] EXCEPT !.members = <<>>]
            \/ /\ species'[j].stagnation = 0 /\ species'[j].age = 0
               /\ species'[j].representative \in Range(population)]_vars

\* the ids of the layers of genome g
LayerIds(g) ==
  {archs[genomes[g].architecture].layers[k].id :
     k \in 1..Len(archs[genomes[g].architecture].layers)}

\* C25: in every genome of the population the source and the destination of
\* every connection gene are ids of layers of that genome.
ConnectionsJoinLayers ==
  \A g \in Range(population) :
    \A k \in 1..Len(archs[genomes[g].architecture].connections) :
      /\ archs[genomes[g].architecture].connections[k].from \in LayerIds(g)
      /\ archs[genomes[g].architecture].connections[k].to \in LayerIds(g)

\* C30: whatever startEvolution and stopEvolution calls are made, at most one
\* self-scheduled next-generation delay is pending at any time.
SingleDrivingLoop == timers <= 1

\* the innovation numbers of the connections of the p-th genome of the population
InnovationsOf(p) ==
  {archs[genomes[population[p]].architecture].connections[k].innovation :
     k \in 1..Len(archs[genomes[population[p]].architecture].connections)}

\* the p-th genome of the population has an input layer of inputSize units
\* followed by an output layer of outputSize units, and one connection per
\* (input unit, output unit) pair
MinimalShape(p) ==
  LET a == archs[genomes[population[p]].architecture]
  IN /\ Len(a.layers) = 2
     /\ a.layers[1].type = "input" /\ a.layers[1].units = configuration.inputSize
     /\ a.layers[2].type = "output" /\ a.layers[2].units = configuration.outputSize
     /\ Len(a.connections) = configuration.inputSize * configuration.outputSize
     /\ Cardinality({<<a.connections[k].from, a.connections[k].to>> : k \in 1..Len(a.connections)})
          = configuration.inputSize * configuration.outputSize
     /\ Cardinality(InnovationsOf(p)) = Len(a.connections)

\* C22 as stated: every genome createMinimalGenome produced has 2 layers and
\* inputSize * outputSize connections numbered 0 .. inputSize * outputSize - 1.
MinimalGenomeFromZero ==
  generation = 0 =>
    \A p \in 1..Len(population) :
      /\ MinimalShape(p)
      /\ InnovationsOf(p) = 0..(configuration.inputSize * configuration.outputSize - 1)

\* C22 amended: every genome createMinimalGenome produced has 2 layers and
\* inputSize * outputSize connections, numbered with the consecutive values
\* that start at the innovation counter at the time of the call: from 0 for
\* the first genome of the initial population, from (p - 1) * inputSize *
\* outputSize for the p-th.
MinimalGenomeConstruction ==
  generation = 0 =>
    \A p \in 1..Len(population) :
      /\ MinimalShape(p)
      /\ InnovationsOf(p) =
           ((p - 1) * configuration.inputSize * configuration.outputSize)
             ..(p * configuration.inputSize * configuration.outputSize - 1)

\* an engine constructed with inputSize 4, outputSize 2 and two genomes: the
\* first has connections 0..7, the second 8..15
MinimalGenomeConstructionWitness ==
  /\ generation = 0
  /\ configuration.inputSize = 4 /\ configuration.outputSize = 2
  /\ Len(population) = 2
  /\ InnovationsOf(1) = 0..7
  /\ InnovationsOf(2) = 8..15

\* what mutate and its operators are given for the architecture object a in
\* the current state of the engine
MutationState(a) ==
  [a |-> archs[a], inn |-> innovationNumber, emitted |-> emitted, stamp |-> lastStamp]

AllRatesZero ==
  \A r \in DOMAIN configuration.mutationRates : configuration.mutationRates[r] = 0

\* the step pushes an offspring to newPopulation
PushesOffspring == pc = "reproduce" /\ Len(newPopulation') = Len(newPopulation) + 1

\* the architecture of the offspring the step pushes is what crossover
\* returned: parent 1's architecture, or a gene-mixing of two parents
OffspringAsCrossed ==
  LET x == archs'[genomes'[newPopulation'[Len(newPopulation')]].architecture]
  IN \E parent1, parent2 \in Range(population) :
       \/ x = archs[genomes[parent1].architecture]
       \/ x \in crossoverArchitectures(archs[genomes[parent1].architecture],
                                       archs[genomes[parent2].architecture])

\* C23: with all seven mutation rates 0, mutate returns every architecture as
\* it was given (layers, connections, weights, activations, learning rate)
\* and leaves the innovation counter alone; the offspring a generation pushes
\* is the crossover result unchanged.
ZeroRatesNoOp ==
  /\ [](AllRatesZero =>
          \A a \in DOMAIN archs :
            mutate(MutationState(a), configuration) = {MutationState(a)})
  /\ [][AllRatesZero /\ PushesOffspring =>
          /\ innovationNumber' = innovationNumber
          /\ emitted' = emitted
          /\ \A a \in DOMAIN archs : archs'[a] = archs[a]
          /\ OffspringAsCrossed]_vars

\* with all rates 0 the mutation pass has run on a gene-mixing offspring and
\* on a copy of parent 1
ZeroRatesNoOpWitness ==
  /\ AllRatesZero
  /\ pc = "idle" /\ generation = MaxGenerations
  /\ innovationNumber =
       configuration.populationSize * configuration.inputSize * configuration.outputSize
  /\ \E g \in Range(population) : archs[genomes[g].architecture].connections = <<>>
  /\ \E g \in Range(population) : archs[genomes[g].architecture].connections # <<>>

\* C26: add-node on an architecture holding maxHiddenLayers hidden layers,
\* add-connection on one with 2 or fewer layers or with a drawn source and
\* destination of the same id, remove-node on one without hidden layer and
\* remove-connection on one with 1 or 0 connections return the architecture
\* and the innovation counter as they were given.
StructuralNoOps ==
  \A a \in DOMAIN archs :
    LET m == MutationState(a)
        layers == archs[a].layers
    IN /\ HiddenCount(layers) >= configuration.maxHiddenLayers
            => addNodeMutation(m, configuration) = {m}
       /\ Len(layers) <= 2 => addConnectionMutation(m, configuration) = {m}
       /\ Len(layers) > 2 =>
            \A from \in 1..(Len(layers) - 1), to \in 2..Len(layers), w \in draws.weights :
              layers[from].id = layers[to].id => ConnectDrawn(m, from, to, w) = m
       /\ HiddenCount(layers) = 0 => removeNodeMutation(m, configuration) = {m}
       /\ Len(archs[a].connections) <= 1 => removeConnectionMutation(m, configuration) = {m}

\* add-connection has run on an offspring with 2 layers (its rate is 1) and
\* the offspring has no connection more and the counter has not moved
StructuralNoOpsWitness ==
  /\ configuration.mutationRates.addConnection = 100
  /\ pc = "reproduce" /\ Len(newPopulation) > eliteCount
  /\ Len(archs[genomes[newPopulation[Len(newPopulation)]].architecture].layers) = 2
  /\ archs[genomes[newPopulation[Len(newPopulation)]].architecture].connections = <<>>
  /\ innovationNumber =
       configuration.populationSize * configuration.inputSize * configuration.outputSize

\* layer x has the id and type of layer1 and each other attribute of layer1 or layer2
MixedLayer(x, layer1, layer2) ==
  /\ x.id = layer1.id /\ x.type = layer1.type
  /\ x.units \in {layer1.units, layer2.units}
  /\ x.activation \in {layer1.activation, layer2.activation}
  /\ x.dropout \in {layer1.dropout, layer2.dropout}
  /\ x.batchNormalization \in {layer1.batchNormalization, layer2.batchNormalization}

\* architecture x has the shape of a gene-mixing of a1 (parent 1) and a2
CrossedShape(x, a1, a2) ==
  /\ Len(x.layers) = Max2(Len(a1.layers), Len(a2.layers))
  /\ \A i \in 1..Len(x.layers) :
       IF i <= Len(a1.layers) /\ i <= Len(a2.layers)
         THEN MixedLayer(x.layers[i], a1.layers[i], a2.layers[i])
       ELSE IF i <= Len(a1.layers) THEN x.layers[i] = a1.layers[i]
       ELSE x.layers[i] = a2.layers[i]
  /\ x.connections = <<>>

\* the step pushes an offspring that the gene-mixing branch of crossover built
PushesMixedOffspring ==
  /\ PushesOffspring
  /\ genomes'[newPopulation'[Len(newPopulation')]].architecture \notin DOMAIN archs

\* C27: whatever two parents of the population the gene-mixing branch of
\* crossover is given during reproduction, its result has as many layers as the longer parent, at an index
\* both parents have a layer with parent 1's id and type and each other
\* attribute from one of the two, at an index one parent has that parent's
\* layer, and no connection; the offspring has fitness 0 and species 0, and
\* the step changes no genome and no architecture that existed before it.
GeneMixingShape ==
  /\ [](pc = "reproduce" =>
          \A parent1, parent2 \in Range(population) :
            \A x \in crossoverArchitectures(archs[genomes[parent1].architecture],
                                             archs[genomes[parent2].architecture]) :
              CrossedShape(x, archs[genomes[parent1].architecture],
                              archs[genomes[parent2].architecture]))
  /\ [][PushesMixedOffspring =>
          /\ genomes'[newPopulation'[Len(newPopulation')]].fitness = 0
          /\ genomes'[newPopulation'[Len(newPopulation')]].species = 0
          /\ \A g \in DOMAIN genomes : genomes'[g] = genomes[g]
          /\ \A a \in DOMAIN archs : archs'[a] = archs[a]]_vars

\* in the second generation a parent 1 with 2 layers and a parent 2 with 3
\* have been mixed: the offspring's layers are input, output, output
GeneMixingShapeWitness ==
  /\ pc = "reproduce" /\ generation = 1 /\ Len(newPopulation) > eliteCount
  /\ LET g == newPopulation[Len(newPopulation)]
         layers == archs[genomes[g].architecture].layers
     IN /\ genomes[g].fitness = 0 /\ genomes[g].species = 0
        /\ Len(layers) = 3
        /\ layers[1].type = "input" /\ layers[2].type = "output" /\ layers[3].type = "output"

\* the order of the steps of evolveGeneration after its await
StepSuccessors ==
  { <<"idle", "stats">>, <<"stats", "speciate">>, <<"speciate", "prune">>,
    <<"prune", "elitism">>, <<"elitism", "reproduce">>, <<"reproduce", "idle">> }

\* the adjusted fitness of some genome changes in this step
AdjustedFitnessChanges ==
  \E g \in DOMAIN genomes \cap DOMAIN genomes' :
    genomes'[g].adjustedFitness # genomes[g].adjustedFitness

\* C28: the steps of a generation follow each other in the order statistics,
\* speciation, pruning, reproduction, installation; no oracle call of the
\* generation is pending while any of them runs and the first of them follows
\* the settlement of the last call; adjusted fitness, the species list and the
\* next population change in their own step only; the step that replaces the
\* population advances the counter by exactly 1, records a best genome taken
\* from the new population or kept, and emits generation-completed with the
\* advanced counter.
StepOrder ==
  /\ [][pc' # pc => <<pc, pc'>> \in StepSuccessors]_vars
  /\ [](active # 0 => active \in DOMAIN runs /\ runs[active] = {})
  /\ [][pc = "idle" /\ pc' = "stats" =>
          \E g \in DOMAIN genomes : Settles(g) /\ runs'[active'] = {}]_vars
  /\ [][AdjustedFitnessChanges => pc = "stats" /\ pc' = "speciate"]_vars
  /\ [][species' # species => pc \in {"speciate", "prune"} /\ pc' # pc]_vars
  /\ [][newPopulation' # newPopulation => pc \in {"elitism", "reproduce"}]_vars
  /\ [][\/ population' # population
        \/ generation' # generation
        \/ bestGenome' # bestGenome
        \/ completedEvents' # completedEvents
        => CompletesGeneration]_vars
  /\ [][CompletesGeneration =>
          /\ population' =
               SubSeq(newPopulation, 1, Min2(configuration.populationSize, Len(newPopulation)))
          /\ generation' = generation + 1
          /\ bestGenome' # NoGenome
          /\ bestGenome' = bestGenome \/ \E g \in Range(population') : bestGenome' = genomes'[g]
          /\ completedEvents' = Append(completedEvents, generation')]_vars

\* two generations have completed, one after a stop and a new start, and
\* each has emitted generation-completed with its own number
StepOrderWitness ==
  /\ generation = MaxGenerations /\ pc = "idle"
  /\ completedEvents = [i \in 1..MaxGenerations |-> i]
  /\ bestGenome # NoGenome
  /\ timers = MaxRuns

\* an oracle call is pending
CallPending == \E r \in DOMAIN runs : runs[r] # {}

\* C29: while evolution runs and is never stopped, with every oracle call
\* settling and every delay firing, each generation below the model's cap
\* completes and the next one starts; the generation counter advances only
\* in a step in which no oracle call is pending, and there is never a second
\* invocation that could advance it, so a call that never settles holds the
\* counter for ever.
ProgressWhileRunning ==
  /\ \A k \in 0..(MaxGenerations - 1) :
       (isRunning /\ generation = k) ~> (generation = k + 1)
  /\ \A k \in 1..(MaxGenerations - 1) :
       (isRunning /\ generation = k) ~> (generation = k /\ NumRuns = 1)
  /\ [][generation' # generation => ~CallPending]_vars
  /\ [](NumRuns <= 1)

\* the last generation below the cap has completed and scheduled its delay
ProgressWhileRunningWitness ==
  /\ isRunning /\ generation = MaxGenerations
  /\ NumRuns = 0 /\ timers = 1
  /\ completedEvents = [i \in 1..MaxGenerations |-> i]

====
